---------------------------- MODULE Spec2Model ----------------------------
(***************************************************************************)
(* A model of the rocket hover simulator: the Rocket of simulator.py with  *)
(* its OnOffHoverController, the controllers of controller.py, the         *)
(* RigidBody of physics.py and the Rocket of main.py.                      *)
(*                                                                         *)
(* Numbers.  The program computes in binary floating point.  The model     *)
(* computes on a fixed-point grid: a length, velocity, acceleration or     *)
(* force x is held as the integer x * UNIT.  The constructor arguments and *)
(* controller signals the model draws are chosen so that every product and *)
(* quotient the code forms is exact on that grid (GridExact is the check), *)
(* so the model follows the code's formulas in real arithmetic; rounding   *)
(* of floating point is not modelled.  A thrust percentage p is held as    *)
(* the integer 100 * p.                                                    *)
(***************************************************************************)
EXTENDS Integers, Sequences, FiniteSets

(***************************************************************************)
(* simulator.py: module constants                                          *)
(***************************************************************************)
WIDTH == 800

FPS == 60

SCALE == 2

GROUND_Y == 550

TARGET_Y == 250

\* One world unit on the grid: DT * DT * GRAVITY and a tenth of a unit are
\* whole numbers of grid steps.
UNIT == (FPS \div SCALE) * (FPS \div SCALE) * 5

\* GRAVITY = np.array((0, 9.8))
GRAVITY == <<0, (98 * UNIT) \div 10>>

\* One hundred percent of thrust.
PCT == 10 * 10

(***************************************************************************)
(* Bounds of the model                                                     *)
(***************************************************************************)
\* Number of Rocket.update() calls in one run.
MaxTicks == 5

\* Number of Controller.tick() calls in one run.
MaxCalls == 3

\* Number of RigidBody.apply_force() and update() calls in one run.
MaxBodyCalls == 4

\* Number of update() calls of the Rocket of main.py in one run.
MaxMainTicks == 30

(***************************************************************************)
(* Vectors (numpy arrays of two components)                                *)
(***************************************************************************)
VAdd(a, b) == <<a[1] + b[1], a[2] + b[2]>>

\* a * (n / d)
VTimes(a, n, d) == <<(a[1] * n) \div d, (a[2] * n) \div d>>

\* DT = 1 / FPS * SCALE, as the fraction DT[1] / DT[2]
DT == <<SCALE, FPS>>

\* v * dt
TimesDT(v, dt) == VTimes(v, dt[1], dt[2])

(***************************************************************************)
(* The inputs of a run                                                     *)
(***************************************************************************)
\* <<mass, max_thrust_force>> of the constructor: the spec scenario's rocket,
\* a rocket whose full thrust is weaker than gravity, a heavier rocket.
RocketParams == {<<1, 20>>, <<1, 8>>, <<2, 28>>}

\* Where gravity alone moves a resting rocket in one tick, on the grid.
FallStep == TimesDT(TimesDT(GRAVITY, DT), DT)[2]

\* Initial pos[1] (the y coordinate), on the grid.
InitialYs ==
    { GROUND_Y * UNIT, GROUND_Y * UNIT - FallStep, GROUND_Y * UNIT - 20,
      TARGET_Y * UNIT, TARGET_Y * UNIT + 1, TARGET_Y * UNIT - 1, 0 }

\* The x coordinate the Simulation gives its rocket: WIDTH / 2.
InitialX == (WIDTH \div 2) * UNIT

\* The controllers a Rocket is constructed with: the hover controller, or any
\* other object with a tick method ("Other": it may return any signal).
Controllers ==
    { [kind |-> "OnOffHover", target_y |-> TARGET_Y * UNIT],
      [kind |-> "OnOffHover", target_y |-> GROUND_Y * UNIT],
      [kind |-> "Other", target_y |-> 0] }

\* What a controller that is not the hover controller may return, in
\* hundredths: values of the thrust grid and values outside it.
OtherSignals == {0, 10, 50, 100, -10, 25, 110}

\* Controller.__init__'s setpoint and the process_var of a tick: whole even
\* numbers, so that every error difference halves exactly.
Setpoints == {0, 4}

ProcessVars == {0, 2, 4}

\* The dt of a tick: positive, zero and negative.
DtValues == {-1, 0, 1, 2}

\* <<kp, ki, di>> of PIDController.__init__; <<1, 0, 1>> are the defaults.
PidWeights == {<<1, 0, 1>>, <<1, 1, 0>>, <<2, 1, 1>>, <<1, 0, 0>>}

VARIABLES
    pos,             \* Rocket._pos
    vel,             \* Rocket._vel
    mass,            \* Rocket._mass
    thrust_max_force,\* Rocket._thrust_max_force
    thrust_percent,  \* Rocket._thrust_percent, in hundredths
    controller,      \* Rocket._controller
    measured,        \* the rocket_y the last update() passed to controller.tick
    signal,          \* what controller.tick returned in the last update()
    raised,          \* how the last update() ended: "none" or the exception
    ticks            \* number of update() calls so far

rocketVars ==
    <<pos, vel, mass, thrust_max_force, thrust_percent, controller, measured,
      signal, raised, ticks>>

\* The controller object of controller.py a run constructs and ticks.
VARIABLES
    ctl_kind,        \* its class: "PIDController", "OnOffController" ("none": no object)
    setpoint,        \* Controller._setpoint
    kp,              \* PIDController._kp
    ki,              \* PIDController._ki
    di,              \* PIDController._di
    error_previous,  \* PIDController._error_previous
    error_integral,  \* PIDController._error_integral
    calls            \* the tick calls so far: arguments, _error_previous on
                     \* entry, value returned, exception raised

ctlVars ==
    <<ctl_kind, setpoint, kp, ki, di, error_previous, error_integral, calls>>

\* Two Rockets of simulator.py in one process, and what they may share.
VARIABLES
    sim_gravity,     \* the array the module-level GRAVITY of simulator.py holds
    hover_objs,      \* the OnOffHoverController objects: id -> its fields
    rockets,         \* the Rocket objects: id -> its fields, controller an id
    rocket_pos0      \* the pos both Rockets were constructed with

pairVars == <<sim_gravity, hover_objs, rockets, rocket_pos0>>

\* The RigidBody of physics.py.
VARIABLES
    phys_gravity,    \* the array the module-level GRAVITY of physics.py holds
    body,            \* the RigidBody's fields
    body_log         \* the calls so far: "apply_force" or "update", with
                     \* the velocity change of an update and its dt

bodyVars == <<phys_gravity, body, body_log>>

\* The Rocket of main.py.
VARIABLES
    main_pos,        \* Rocket._pos
    main_vel,        \* Rocket._vel
    main_body,       \* Rocket._body: the Polygon's points
    main_exhaust,    \* Rocket._exhaust: the Line's points, and whether drawn
    main_ticks       \* number of update() calls so far

mainVars == <<main_pos, main_vel, main_body, main_exhaust, main_ticks>>

vars == <<rocketVars, ctlVars, pairVars, bodyVars, mainVars>>

(***************************************************************************)
(* simulator.py: OnOffHoverController                                      *)
(***************************************************************************)
HoverError(target_y, rocket_y) == target_y - rocket_y

HoverTickLe(target_y, rocket_y) ==
    IF HoverError(target_y, rocket_y) <= 0 THEN PCT ELSE 0

HoverTickFlipped(target_y, rocket_y) ==
    IF HoverError(target_y, rocket_y) > 0 THEN PCT ELSE 0

\* return 1 if self._error(rocket_y) < 0 else 0
HoverTick(target_y, rocket_y) ==
    IF HoverError(target_y, rocket_y) < 0 THEN PCT ELSE 0

\* The signals self._controller.tick(self._pos[1]) may return.
ControllerTick(c, rocket_y) ==
    IF c.kind = "OnOffHover"
    THEN {HoverTick(c.target_y, rocket_y)}
    ELSE OtherSignals

(***************************************************************************)
(* simulator.py: Rocket                                                    *)
(***************************************************************************)
\* np.arange(0, 1.1, .1), in hundredths
ThrustGrid == {10 * i : i \in 0..10}

InThrustGridClipped(percent) == percent <= PCT

\* assert percent in np.arange(0, 1.1, .1)
InThrustGrid(percent) == percent \in ThrustGrid

AccThrustDown(percent, m, max_force) ==
    IF percent # 0
    THEN VAdd(GRAVITY, VTimes(VTimes(max_force, -percent, PCT), 1, m))
    ELSE GRAVITY

\* acc = GRAVITY; if thrust_percent: acc = acc + max_force * percent / mass
Acc(percent, m, max_force) ==
    IF percent # 0
    THEN LET thrust_force == VTimes(max_force, percent, PCT)
             thrust_acc == VTimes(thrust_force, 1, m)
         IN  VAdd(GRAVITY, thrust_acc)
    ELSE GRAVITY

IntegrateVelNoDt(v, acc, dt) == VAdd(v, acc)

\* self._vel += acc * DT
IntegrateVel(v, acc, dt) == VAdd(v, TimesDT(acc, dt))

IntegratePosExplicit(p, vOld, vNew, dt) == VAdd(p, TimesDT(vOld, dt))

\* self._pos += self._vel * DT, after self._vel was updated
IntegratePos(p, vOld, vNew, dt) == VAdd(p, TimesDT(vNew, dt))

CollidesStrict(p) == p[2] > GROUND_Y * UNIT

\* if self._pos[1] >= GROUND_Y
Collides(p) == p[2] >= GROUND_Y * UNIT

Min(a, b) == IF a <= b THEN a ELSE b

GroundVelKept(v) == v

GroundVelAbs(v) == <<v[1], IF v[2] < 0 THEN -v[2] ELSE v[2]>>

\* self._vel[1] = min(0, self._vel[1])
GroundVel(v) == <<v[1], Min(0, v[2])>>

GroundPosKept(p) == p

\* self._pos[1] = GROUND_Y
GroundPos(p) == <<p[1], GROUND_Y * UNIT>>

\* Rocket.__init__, with self._vel = (0, 0) and self._thrust_percent = 0
RocketInit ==
    /\ \E y \in InitialYs : pos = <<InitialX, y>>
    /\ vel = <<0, 0>>
    /\ \E mf \in RocketParams :
          /\ mass = mf[1]
          /\ thrust_max_force = <<0, -(mf[2] * UNIT)>>
    /\ thrust_percent = 0
    /\ controller \in Controllers
    /\ measured = 0
    /\ signal = 0
    /\ raised = "none"
    /\ ticks = 0

\* Rocket.update(), with _set_thrust
Update ==
    /\ ticks < MaxTicks
    /\ ticks' = ticks + 1
    /\ measured' = pos[2]
    /\ \E s \in ControllerTick(controller, pos[2]) :
          /\ signal' = s
          /\ IF ~InThrustGrid(s)
             THEN /\ raised' = "AssertionError"
                  /\ UNCHANGED <<pos, vel, thrust_percent>>
             ELSE LET acc == Acc(s, mass, thrust_max_force)
                      v1 == IntegrateVel(vel, acc, DT)
                      p1 == IntegratePos(pos, vel, v1, DT)
                  IN  /\ raised' = "none"
                      /\ thrust_percent' = s
                      /\ pos' = IF Collides(p1) THEN GroundPos(p1) ELSE p1
                      /\ vel' = IF Collides(p1) THEN GroundVel(v1) ELSE v1
    /\ UNCHANGED <<mass, thrust_max_force, controller>>
    /\ UNCHANGED <<ctlVars, pairVars, bodyVars, mainVars>>

(***************************************************************************)
(* simulator.py: two Rockets in one process                                *)
(***************************************************************************)
\* Rocket.__init__: the fields of a new Rocket whose controller is object c.
NewRocket(p, m, max_thrust_force, c) ==
    [pos |-> p, vel |-> <<0, 0>>, mass |-> m,
     thrust_max_force |-> <<0, -(max_thrust_force * UNIT)>>,
     thrust_percent |-> 0, controller |-> c, ticks |-> 0]

\* OnOffHoverController.tick assigns no field of the controller.
HoverAfterTick(obj, rocket_y) == obj

\* thrust_force = self._thrust_max_force * self._thrust_percent
\* thrust_acc = thrust_force / self._mass
ThrustAcc(percent, m, max_force) ==
    VTimes(VTimes(max_force, percent, PCT), 1, m)

GravityAddedInPlace(g, thrust_acc) == VAdd(g, thrust_acc)

\* What GRAVITY holds after acc = acc + thrust_acc: the sum is a new array,
\* bound to acc; the array GRAVITY names is not written.
GravityAfterAcc(g, thrust_acc) == g

\* Rocket.update() of the Rocket with fields r, GRAVITY holding g and the
\* controller objects being h: the Rocket's fields, GRAVITY and the
\* controller objects after it.
UpdateOf(r, g, h) ==
    LET c == h[r.controller]
        s == HoverTick(c.target_y, r.pos[2])
        h1 == [h EXCEPT ![r.controller] = HoverAfterTick(c, r.pos[2])]
    IN  IF ~InThrustGrid(s)
        THEN [rocket |-> [r EXCEPT !.ticks = @ + 1], gravity |-> g,
              objs |-> h1]
        ELSE LET ta == ThrustAcc(s, r.mass, r.thrust_max_force)
                 acc == IF s # 0 THEN VAdd(g, ta) ELSE g
                 g1 == IF s # 0 THEN GravityAfterAcc(g, ta) ELSE g
                 v1 == IntegrateVel(r.vel, acc, DT)
                 p1 == IntegratePos(r.pos, r.vel, v1, DT)
             IN  [rocket |->
                     [r EXCEPT !.thrust_percent = s,
                               !.pos = IF Collides(p1) THEN GroundPos(p1)
                                                       ELSE p1,
                               !.vel = IF Collides(p1) THEN GroundVel(v1)
                                                       ELSE v1,
                               !.ticks = @ + 1],
                  gravity |-> g1, objs |-> h1]

\* Two Rockets constructed with the same arguments: with the one default
\* controller object of Rocket.__init__ (shared), or with a controller
\* object each.
PairInit ==
    /\ sim_gravity = GRAVITY
    /\ \E y \in InitialYs, mf \in RocketParams, shared \in BOOLEAN,
          target \in {TARGET_Y * UNIT, GROUND_Y * UNIT} :
          /\ rocket_pos0 = <<InitialX, y>>
          /\ hover_objs = IF shared
                          THEN <<[target_y |-> target]>>
                          ELSE <<[target_y |-> target], [target_y |-> target]>>
          /\ rockets = [i \in 1..2 |->
                          NewRocket(<<InitialX, y>>, mf[1], mf[2],
                                    IF shared THEN 1 ELSE i)]

\* rockets[i].update()
PairUpdate(i) ==
    /\ rockets[i].ticks < MaxTicks
    /\ LET after == UpdateOf(rockets[i], sim_gravity, hover_objs)
       IN  /\ rockets' = [rockets EXCEPT ![i] = after.rocket]
           /\ sim_gravity' = after.gravity
           /\ hover_objs' = after.objs
    /\ UNCHANGED rocket_pos0
    /\ UNCHANGED <<rocketVars, ctlVars, bodyVars, mainVars>>

(***************************************************************************)
(* controller.py                                                           *)
(***************************************************************************)
\* A float: a finite number, or one of inf, -inf, nan.
Num(n) == [tag |-> "num", val |-> n]

Inf == [tag |-> "inf", val |-> 0]

NegInf == [tag |-> "-inf", val |-> 0]

NaN == [tag |-> "nan", val |-> 0]

NoValue == [tag |-> "none", val |-> 0]

\* a / b for b # 0, exact on the inputs of the model
Div(a, b) == IF b > 0 THEN a \div b ELSE (-a) \div (-b)

\* Controller._error: self._setpoint - process_variable
Error(sp, process_var) == sp - process_var

\* np.inf * error, in IEEE arithmetic
InfTimes(error) ==
    IF error > 0 THEN Inf ELSE IF error < 0 THEN NegInf ELSE NaN

IntegralNoDt(integral, error, dt) == integral + error

IntegralDtDefault(integral, error, dt) ==
    integral + error * (IF dt = 0 THEN 1 ELSE dt)

\* self._error_integral += error * dt
Integral(integral, error, dt) == integral + error * dt

DerivativeAfterStore(error, previous, dt) == Div(error - error, dt)

\* derivative = (error - self._error_previous) / dt
Derivative(error, previous, dt) == Div(error - previous, dt)

\* self._kp * error + self._ki * self._error_integral + self._di * derivative
Output(error, integral, derivative) ==
    kp * error + ki * integral + di * derivative

\* (error - self._error_previous) / dt raises ZeroDivisionError
DivisionRaises(dt) == dt = 0

\* Controller.__init__ and PIDController.__init__
ControllerInit ==
    /\ ctl_kind \in {"PIDController", "OnOffController"}
    /\ setpoint \in Setpoints
    /\ IF ctl_kind = "PIDController"
       THEN \E w \in PidWeights : kp = w[1] /\ ki = w[2] /\ di = w[3]
       ELSE kp = 0 /\ ki = 0 /\ di = 0
    /\ error_previous = 0
    /\ error_integral = 0
    /\ calls = <<>>

Call(process_var, dt, ret, exc) ==
    [process_var |-> process_var, dt |-> dt, previous |-> error_previous,
     ret |-> ret, raised |-> exc]

\* OnOffController.tick(process_var, dt)
OnOffTick(process_var, dt) ==
    /\ ctl_kind = "OnOffController"
    /\ Len(calls) < MaxCalls
    /\ calls' = Append(calls,
                       Call(process_var, dt,
                            InfTimes(Error(setpoint, process_var)), "none"))
    /\ UNCHANGED <<ctl_kind, setpoint, kp, ki, di, error_previous,
                   error_integral>>
    /\ UNCHANGED <<rocketVars, pairVars, bodyVars, mainVars>>

\* PIDController.tick(process_var, dt)
PIDTick(process_var, dt) ==
    /\ ctl_kind = "PIDController"
    /\ Len(calls) < MaxCalls
    /\ LET error == Error(setpoint, process_var)
           integral == Integral(error_integral, error, dt)
       IN  /\ error_integral' = integral
           /\ IF DivisionRaises(dt)
              THEN /\ UNCHANGED error_previous
                   /\ calls' = Append(calls, Call(process_var, dt, NoValue,
                                                  "ZeroDivisionError"))
              ELSE LET derivative == Derivative(error, error_previous, dt)
                   IN  /\ error_previous' = error
                       /\ calls' = Append(calls,
                              Call(process_var, dt,
                                   Num(Output(error, integral, derivative)),
                                   "none"))
    /\ UNCHANGED <<ctl_kind, setpoint, kp, ki, di>>
    /\ UNCHANGED <<rocketVars, pairVars, bodyVars, mainVars>>

(***************************************************************************)
(* physics.py: RigidBody.  Lengths, velocities, accelerations and forces   *)
(* are held in tenths, torques in hundredths; dt in whole seconds.         *)
(***************************************************************************)
\* GRAVITY = np.array((0, 9.8)), as the module sets it
PHYSICS_GRAVITY == <<0, 98>>

\* mass and moment_of_inertia of RigidBody.__init__
BodyParams == {<<1, 1>>, <<2, 1>>, <<2, 2>>}

\* position of RigidBody.__init__: the default and the Simulation's, in tenths
BodyPositions == {<<0, 0>>, <<1000, 1000>>}

\* force of apply_force, in tenths
Forces == {<<0, 0>>, <<0, -20>>, <<20, 0>>}

\* contact_point of apply_force: None, or a point in tenths
ContactPoints == {<<"None">>, <<20, 40>>}

\* dt of update
BodyDts == {1, 2}

\* np.cross(a, b) of two plane vectors
Cross(a, b) == a[1] * b[2] - a[2] * b[1]

\* RigidBody.__init__
BodyInit ==
    /\ phys_gravity = PHYSICS_GRAVITY
    /\ \E mm \in BodyParams, position \in BodyPositions :
          body = [m |-> mm[1], mi |-> mm[2], p |-> position, v |-> <<0, 0>>,
                  r |-> 0, av |-> 0, f |-> <<0, 0>>, t |-> 0]
    /\ body_log = <<>>

\* RigidBody.apply_force(force, contact_point)
ApplyForce(force, contact_point) ==
    /\ Len(body_log) < MaxBodyCalls
    /\ LET cp == IF contact_point = <<"None">> THEN body.p ELSE contact_point
           arm == <<body.p[1] - cp[1], body.p[2] - cp[2]>>
       IN  body' = [body EXCEPT !.f = VAdd(@, force),
                                !.t = @ + Cross(arm, force)]
    /\ body_log' = Append(body_log,
                          [op |-> "apply_force", dt |-> 0, f |-> body.f,
                           dv |-> <<0, 0>>])
    /\ UNCHANGED phys_gravity
    /\ UNCHANGED <<rocketVars, ctlVars, pairVars, mainVars>>

\* What GRAVITY holds after a = GRAVITY; a += self._f / self._m: a names
\* the array GRAVITY names, and += adds into it.
GravityAfterUpdate(g, f, m) == VAdd(g, VTimes(f, 1, m))

\* RigidBody.update(dt)
BodyUpdate(dt) ==
    /\ Len(body_log) < MaxBodyCalls
    /\ LET a == GravityAfterUpdate(phys_gravity, body.f, body.m)
           v1 == VAdd(body.v, VTimes(a, dt, 1))
           p1 == VAdd(body.p, VTimes(v1, dt, 1))
           aa == Div(body.t, body.mi)
           av1 == body.av + aa * dt
           r1 == body.r + av1 * dt
       IN  /\ phys_gravity' = a
           /\ body' = [body EXCEPT !.v = v1, !.p = p1, !.av = av1, !.r = r1,
                                   !.f = <<0, 0>>, !.t = 0]
           /\ body_log' = Append(body_log,
                                 [op |-> "update", dt |-> dt, f |-> body.f,
                                  dv |-> <<v1[1] - body.v[1],
                                           v1[2] - body.v[2]>>])
    /\ UNCHANGED <<rocketVars, ctlVars, pairVars, mainVars>>

(***************************************************************************)
(* main.py: Rocket.  Lengths, velocities and accelerations are held in     *)
(* hundredths.  The shapes are those of the graphics library: a shape is   *)
(* its points, move(dx, dy) shifts every point, draw and undraw set and    *)
(* clear whether it is on the window.                                      *)
(***************************************************************************)
MAIN_UNIT == 10 * 10

\* GRAVITY = np.array((0, .1))
MAIN_GRAVITY == <<0, 10>>

MAIN_GROUND_Y == 500

MAIN_TARGET_Y == 200

\* self._thrust_acc = np.array((0., -.13))
MAIN_THRUST_ACC == <<0, -13>>

\* pos of Rocket.__init__, in world units: the Simulation's (WIDTH / 2,
\* GROUND_Y), and rockets that start higher.
MainPositions ==
    { <<WIDTH \div 2, y>> : y \in {MAIN_GROUND_Y, MAIN_GROUND_Y - 10,
                                  MAIN_GROUND_Y - 11, MAIN_TARGET_Y + 1,
                                  MAIN_TARGET_Y, 0} }

\* Point(x + dx, y + dy), in hundredths, for x, y in hundredths
Offset(p, dx, dy) == <<p[1] + dx * MAIN_UNIT, p[2] + dy * MAIN_UNIT>>

\* GraphicsObject.move(dx, dy) on a list of points
Move(points, dx, dy) ==
    [i \in DOMAIN points |-> <<points[i][1] + dx, points[i][2] + dy>>]

\* Rocket.__init__(window, pos)
MainInit ==
    \E xy \in MainPositions :
        LET p == <<xy[1] * MAIN_UNIT, xy[2] * MAIN_UNIT>>
        IN  /\ main_pos = p
            /\ main_body = <<Offset(p, -10, 10), Offset(p, 10, 10),
                             Offset(p, 0, -10)>>
            /\ main_exhaust = [points |-> <<Offset(p, 0, 10),
                                            Offset(p, 0, 30)>>,
                               drawn |-> FALSE]
            /\ main_vel = <<0, 0>>
            /\ main_ticks = 0

\* Rocket.update()
MainUpdate ==
    /\ main_ticks < MaxMainTicks
    /\ main_ticks' = main_ticks + 1
    /\ LET thrust == main_pos[2] > MAIN_TARGET_Y * MAIN_UNIT
           acc == IF thrust THEN VAdd(MAIN_GRAVITY, MAIN_THRUST_ACC)
                            ELSE MAIN_GRAVITY
           v1 == VAdd(main_vel, acc)
           p1 == VAdd(main_pos, v1)
           dx == v1[1]
           bottom == main_body[1][2]
           dy == IF bottom + v1[2] >= MAIN_GROUND_Y * MAIN_UNIT
                 THEN MAIN_GROUND_Y * MAIN_UNIT - bottom
                 ELSE v1[2]
       IN  /\ main_vel' = v1
           /\ main_pos' = p1
           /\ main_body' = Move(main_body, dx, dy)
           /\ main_exhaust' = [points |-> Move(main_exhaust.points, dx, dy),
                               drawn |-> thrust]
    /\ UNCHANGED <<rocketVars, ctlVars, pairVars, bodyVars>>

(***************************************************************************)
(* Specifications                                                          *)
(***************************************************************************)
\* No controller of controller.py exists in a run of simulator.py.
NoController ==
    /\ ctl_kind = "none"
    /\ setpoint = 0 /\ kp = 0 /\ ki = 0 /\ di = 0
    /\ error_previous = 0 /\ error_integral = 0
    /\ calls = <<>>

\* No Rocket exists in a run that only ticks a controller of controller.py.
NoRocket ==
    /\ pos = <<0, 0>> /\ vel = <<0, 0>>
    /\ mass = 1 /\ thrust_max_force = <<0, 0>>
    /\ thrust_percent = 0
    /\ controller = [kind |-> "Other", target_y |-> 0]
    /\ measured = 0 /\ signal = 0 /\ raised = "none" /\ ticks = 0

\* No pair of Rockets exists in a run of a single object.
NoPair ==
    /\ sim_gravity = GRAVITY
    /\ hover_objs = <<>>
    /\ rockets = <<>>
    /\ rocket_pos0 = <<0, 0>>

\* No RigidBody exists in a run that does not import physics.py.
NoBody ==
    /\ phys_gravity = <<0, 0>>
    /\ body = [m |-> 1]
    /\ body_log = <<>>

\* No Rocket of main.py exists in a run that does not import main.py.
NoMain ==
    /\ main_pos = <<0, 0>> /\ main_vel = <<0, 0>>
    /\ main_body = <<>> /\ main_exhaust = [drawn |-> FALSE]
    /\ main_ticks = 0

\* simulator.py: a Rocket is constructed and updated.
Init == RocketInit /\ NoController /\ NoPair /\ NoBody /\ NoMain

Next == Update

Spec == Init /\ [][Next]_vars

\* simulator.py: two Rockets are constructed and updated in any order.
InitPair == NoRocket /\ NoController /\ PairInit /\ NoBody /\ NoMain

NextPair == \E i \in 1..2 : PairUpdate(i)

SpecPair == InitPair /\ [][NextPair]_vars

\* physics.py: a RigidBody is constructed, pushed and updated.
InitBody == NoRocket /\ NoController /\ NoPair /\ BodyInit /\ NoMain

NextBody ==
    \/ \E force \in Forces, cp \in ContactPoints : ApplyForce(force, cp)
    \/ \E dt \in BodyDts : BodyUpdate(dt)

SpecBody == InitBody /\ [][NextBody]_vars

\* main.py: a Rocket is constructed and updated.
InitMain == NoRocket /\ NoController /\ NoPair /\ NoBody /\ MainInit

NextMain == MainUpdate

SpecMain == InitMain /\ [][NextMain]_vars

\* controller.py: a controller is constructed and ticked.
InitController == NoRocket /\ ControllerInit /\ NoPair /\ NoBody /\ NoMain

NextController ==
    \E x \in ProcessVars, dt \in DtValues :
        \/ PIDTick(x, dt)
        \/ OnOffTick(x, dt)

SpecController == InitController /\ [][NextController]_vars

\* Every quotient the update forms is exact on the grid.
GridExact ==
    /\ (vel[2] * SCALE) % FPS = 0
    /\ \A s \in ThrustGrid :
          /\ (thrust_max_force[2] * s) % PCT = 0
          /\ ((thrust_max_force[2] * s) \div PCT) % mass = 0
          /\ (Acc(s, mass, thrust_max_force)[2] * SCALE) % FPS = 0

\* Every quotient a PID tick forms is exact.
DerivativeExact ==
    \A i \in 1..Len(calls) :
        calls[i].dt # 0 =>
            ((setpoint - calls[i].process_var) - calls[i].previous)
                % (IF calls[i].dt > 0 THEN calls[i].dt ELSE -calls[i].dt) = 0


(***************************************************************************)
(* Properties of the Rocket of simulator.py (under Spec)                   *)
(***************************************************************************)
\* The velocity and the position the update reaches by integration, before
\* the ground check, when it goes from the current state to the next with
\* thrust_percent'.
IntegratedVel ==
    IntegrateVel(vel, Acc(thrust_percent', mass, thrust_max_force), DT)

IntegratedPos == IntegratePos(pos, vel, IntegratedVel, DT)

\* C1: a Rocket constructed with position.y <= GROUND_Y keeps
\* position.y <= GROUND_Y through every update(), and an update() whose
\* integrated position reaches or passes GROUND_Y leaves position.y exactly
\* GROUND_Y.
C1_GroundIsFloor ==
    /\ [](pos[2] <= GROUND_Y * UNIT)
    /\ [][(raised' = "none" /\ IntegratedPos[2] >= GROUND_Y * UNIT)
             => pos'[2] = GROUND_Y * UNIT]_vars

\* An update() brought a rocket that was above the ground onto the ground.
C1_Witness ==
    /\ ticks > 0 /\ raised = "none"
    /\ measured < GROUND_Y * UNIT
    /\ pos[2] = GROUND_Y * UNIT

\* C2: whenever position.y = GROUND_Y, velocity.y <= 0 (the collision branch
\* zeroes a downward velocity and leaves an upward one).
C2_NoDownwardVelocityOnGround ==
    /\ [](pos[2] = GROUND_Y * UNIT => vel[2] <= 0)
    /\ [][(raised' = "none" /\ IntegratedPos[2] >= GROUND_Y * UNIT)
             => vel'[2] = (IF IntegratedVel[2] > 0 THEN 0
                                                   ELSE IntegratedVel[2])]_vars

\* An update() with no thrust ended on the ground: gravity had made the
\* velocity downward, and the collision branch zeroed it.
C2_Witness ==
    /\ ticks > 0 /\ raised = "none"
    /\ thrust_percent = 0
    /\ measured < GROUND_Y * UNIT
    /\ pos[2] = GROUND_Y * UNIT /\ vel[2] = 0

HoverTicked == controller.kind = "OnOffHover" /\ ticks > 0

OnGrid(percent) == percent % 10 = 0 /\ 0 <= percent /\ percent <= PCT

\* C8: thrust_percent is always one of 0.0, 0.1, ..., 1.0, and an update()
\* whose controller returns a signal outside that grid fails with the
\* assertion of _set_thrust, storing nothing.
C8_ThrustOnGrid ==
    /\ [](OnGrid(thrust_percent))
    /\ [][~OnGrid(signal') =>
             /\ raised' = "AssertionError"
             /\ thrust_percent' = thrust_percent
             /\ pos' = pos /\ vel' = vel]_vars

\* An update() whose controller returned a signal outside the grid failed.
C8_Witness ==
    /\ ticks > 0
    /\ ~OnGrid(signal)
    /\ raised = "AssertionError"

\* One tick from rest at y = 0 with zero thrust and the given dt: <<vel, pos>>.
TickFromRest(dt) ==
    LET v == IntegrateVel(<<0, 0>>, Acc(0, mass, thrust_max_force), dt)
    IN  <<v, IntegratePos(<<0, 0>>, <<0, 0>>, v, dt)>>

\* C10: an update() that does not end on the ground sets
\* velocity' = velocity + acc * DT with acc = GRAVITY + (max thrust force *
\* thrust_percent) / mass, and position' = position + velocity' * DT, the
\* velocity already updated; from rest at y = 0 with zero thrust, a tick of
\* dt = 0.1 gives velocity.y = 0.98 and position.y = 0.098.
C10_SemiImplicitEuler ==
    /\ [][(raised' = "none" /\ pos'[2] < GROUND_Y * UNIT) =>
             \A i \in 1..2 :
                /\ (vel'[i] - vel[i]) * FPS * PCT * mass
                      = SCALE * (GRAVITY[i] * PCT * mass
                                 + thrust_max_force[i] * thrust_percent')
                /\ (pos'[i] - pos[i]) * FPS = vel'[i] * SCALE]_vars
    /\ [](/\ TickFromRest(<<1, 10>>)[1][2] * 100 = 98 * UNIT
          /\ TickFromRest(<<1, 10>>)[2][2] * 1000 = 98 * UNIT)

\* An update() with partial thrust moved a rocket that stays off the ground.
C10_Witness ==
    /\ ticks > 1 /\ raised = "none"
    /\ thrust_percent = 50
    /\ vel[2] # 0
    /\ pos[2] < GROUND_Y * UNIT

\* The hover controller with its target on the ground never thrusts: a run
\* with thrust_percent forced to 0.
FreeFall ==
    controller.kind = "OnOffHover" /\ controller.target_y = GROUND_Y * UNIT

\* C11, as stated: with thrust forced to 0 and starting velocity 0, after n
\* update() ticks velocity.y = GRAVITY.y * n * DT, for every n.
C11_AsStated ==
    FreeFall => vel[2] * FPS = GRAVITY[2] * ticks * SCALE

\* C11, amended: with thrust forced to 0 and starting velocity 0, after n
\* update() ticks velocity.y = GRAVITY.y * n * DT for every n after which the
\* rocket is still above the ground; a tick that ends on the ground leaves
\* velocity.y = 0.
C11_FreeFallUntilGround ==
    FreeFall =>
        /\ thrust_percent = 0
        /\ pos[2] < GROUND_Y * UNIT
              => vel[2] * FPS = GRAVITY[2] * ticks * SCALE
        /\ pos[2] = GROUND_Y * UNIT => vel[2] = 0

\* Three or more ticks of free fall, the rocket still above the ground.
C11_Witness ==
    /\ FreeFall
    /\ ticks >= 3
    /\ pos[2] < GROUND_Y * UNIT
    /\ vel[2] > 0

\* C12: from a state with position.y = GROUND_Y, every update() that applies
\* no thrust (thrust_percent = 0) keeps position.y = GROUND_Y and
\* velocity.y <= 0.
C12_GroundClampIdempotent ==
    [][(pos[2] = GROUND_Y * UNIT /\ ticks' = ticks + 1 /\ thrust_percent' = 0)
          => (pos'[2] = GROUND_Y * UNIT /\ vel'[2] <= 0)]_vars

\* Two updates in a row without thrust, the second one starting on the
\* ground: the rocket is still there, at rest.
C12_Witness ==
    /\ ticks >= 2 /\ raised = "none"
    /\ thrust_percent = 0
    /\ measured = GROUND_Y * UNIT
    /\ pos[2] = GROUND_Y * UNIT /\ vel[2] = 0

C16_AtRestOnGround ==
    /\ [](pos[2] = GROUND_Y * UNIT => vel[2] = 0)
    /\ [][(raised' = "none" /\ IntegratedPos[2] >= GROUND_Y * UNIT)
             => IntegratedVel[2] >= 0]_vars

\* An update() under thrust ended on the ground: the thrust was weaker than
\* gravity, the velocity of the integration downward, and it was zeroed.
C16_Witness ==
    /\ ticks > 0 /\ raised = "none"
    /\ thrust_percent = PCT
    /\ pos[2] = GROUND_Y * UNIT /\ vel[2] = 0

(***************************************************************************)
(* Properties of two Rockets of simulator.py (under SpecPair)              *)
(***************************************************************************)
RECURSIVE Alone(_, _)
\* The fields of Rocket r0 after n update() calls in a process of its own:
\* GRAVITY as the module sets it, its controller used by no one else.
Alone(r0, n) ==
    IF n = 0 THEN r0
    ELSE UpdateOf(Alone(r0, n - 1), GRAVITY, hover_objs).rocket

\* What the trajectory is made of.
Kinematics(r) == <<r.pos, r.vel, r.thrust_percent>>

\* C14: two Rockets created with the same initial state and updated in any
\* interleaving, sharing the default controller object or not, each have
\* the position, velocity and thrust_percent of a Rocket run alone for the
\* same number of updates, and those of each other after equally many.
C14_TrajectoriesIndependent ==
    /\ \A i \in DOMAIN rockets :
          LET r0 == NewRocket(rocket_pos0, rockets[i].mass,
                              -(rockets[i].thrust_max_force[2] \div UNIT),
                              rockets[i].controller)
          IN  Kinematics(rockets[i]) = Kinematics(Alone(r0, rockets[i].ticks))
    /\ \A i, j \in DOMAIN rockets :
          rockets[i].ticks = rockets[j].ticks
             => Kinematics(rockets[i]) = Kinematics(rockets[j])
    /\ sim_gravity = GRAVITY

\* Two Rockets sharing one controller object, updated unequally often, one
\* of them under thrust.
C14_Witness ==
    /\ Len(rockets) = 2
    /\ rockets[1].controller = rockets[2].controller
    /\ rockets[1].ticks = 3 /\ rockets[2].ticks = 1
    /\ rockets[1].thrust_percent = PCT
    /\ rockets[1].pos # rockets[2].pos

(***************************************************************************)
(* Properties of the controllers of controller.py (under SpecController)   *)
(***************************************************************************)
\* The error of the i-th tick call; 0 before the first.
ErrorOf(i) == IF i = 0 THEN 0 ELSE setpoint - calls[i].process_var

RECURSIVE SumErrorDt(_)
\* The sum over the first n calls of error * dt.
SumErrorDt(n) ==
    IF n = 0 THEN 0 ELSE SumErrorDt(n - 1) + ErrorOf(n) * calls[n].dt

AllDtPositive == \A i \in 1..Len(calls) : calls[i].dt > 0

\* C5: after tick(x_1, dt_1) .. tick(x_n, dt_n), every dt_i > 0, on a fresh
\* PIDController: error_integral is the sum of (setpoint - x_i) * dt_i,
\* error_previous is setpoint - x_n, and the n-th call returned
\* kp*e_n + ki*error_integral + kd*(e_n - e_(n-1))/dt_n, with e_0 = 0.
C5_PidClosedForm ==
    (ctl_kind = "PIDController" /\ AllDtPositive) =>
        LET n == Len(calls)
        IN  /\ error_integral = SumErrorDt(n)
            /\ n > 0 =>
                  /\ error_previous = ErrorOf(n)
                  /\ calls[n].raised = "none"
                  /\ calls[n].ret.tag = "num"
                  /\ calls[n].ret.val * calls[n].dt
                        = kp * ErrorOf(n) * calls[n].dt
                          + ki * SumErrorDt(n) * calls[n].dt
                          + di * (ErrorOf(n) - ErrorOf(n - 1))

\* Two ticks with different inputs and a dt other than 1, all three weights
\* at work.
C5_Witness ==
    /\ ctl_kind = "PIDController" /\ AllDtPositive
    /\ Len(calls) >= 2
    /\ kp # 0 /\ ki # 0 /\ di # 0
    /\ calls[1].process_var # calls[2].process_var
    /\ calls[2].dt = 2
    /\ error_integral # 0

\* The last two calls were tick(x, dt) twice with the same x and dt > 0.
SameTickTwice ==
    /\ ctl_kind = "PIDController"
    /\ Len(calls) >= 2
    /\ LET n == Len(calls)
       IN  /\ calls[n].process_var = calls[n - 1].process_var
           /\ calls[n].dt = calls[n - 1].dt
           /\ calls[n].dt > 0

\* C6, as stated: tick(x, dt) twice in a row returns a different value the
\* second time whenever ki # 0 or kd # 0.
C6_AsStated ==
    (SameTickTwice /\ (ki # 0 \/ di # 0)) =>
        calls[Len(calls)].ret # calls[Len(calls) - 1].ret

\* C6, amended: the second of two equal ticks returns the first one's value
\* plus ki*e*dt - kd*(e - e_prev)/dt, with e = setpoint - x and e_prev the
\* error_previous before the first of them; the two values differ exactly
\* when that quantity is not zero.
C6_SecondTickDiffersBy ==
    SameTickTwice =>
        LET n == Len(calls)
            e == ErrorOf(n)
            dt == calls[n].dt
            first == calls[n - 1].ret
            second == calls[n].ret
        IN  /\ first.tag = "num" /\ second.tag = "num"
            /\ (second.val - first.val) * dt
                  = ki * e * dt * dt - di * (e - calls[n - 1].previous)
            /\ second # first
                  <=> ki * e * dt * dt # di * (e - calls[n - 1].previous)

\* Two equal ticks, the derivative weight at work and the error changed by
\* the first of them: the second returned another value.
C6_Witness ==
    /\ SameTickTwice
    /\ di # 0
    /\ ErrorOf(Len(calls)) # calls[Len(calls) - 1].previous
    /\ calls[Len(calls)].ret # calls[Len(calls) - 1].ret

\* C7: PIDController.tick with dt <= 0 fails with an error and returns no
\* control signal.
C7_NonPositiveDtFails ==
    ctl_kind = "PIDController" =>
        \A i \in 1..Len(calls) :
            calls[i].dt <= 0 =>
                calls[i].raised # "none" /\ calls[i].ret.tag = "none"

\* C9: OnOffController.tick returns +infinity for a positive error,
\* -infinity for a negative error and zero, never NaN, for error 0.
C9_OnOffSignalDefined ==
    ctl_kind = "OnOffController" =>
        \A i \in 1..Len(calls) :
            /\ ErrorOf(i) > 0 => calls[i].ret = Inf
            /\ ErrorOf(i) < 0 => calls[i].ret = NegInf
            /\ ErrorOf(i) = 0 => calls[i].ret = Num(0)
            /\ calls[i].ret.tag # "nan"

RECURSIVE SumErrorDtReturned(_)
\* The sum of error * dt over those of the first n calls that returned.
SumErrorDtReturned(n) ==
    IF n = 0 THEN 0
    ELSE SumErrorDtReturned(n - 1)
           + (IF calls[n].raised = "none" THEN ErrorOf(n) * calls[n].dt ELSE 0)

RECURSIVE LastErrorReturned(_)
\* The error of the last of the first n calls that returned; 0 if none did.
LastErrorReturned(n) ==
    IF n = 0 THEN 0
    ELSE IF calls[n].raised = "none" THEN ErrorOf(n)
    ELSE LastErrorReturned(n - 1)

\* C17: a PIDController.tick(x, 0) that fails on the division leaves
\* error_integral and error_previous as they were before the call, so the
\* state is that of the calls that returned alone.
C17_FailedTickLeavesState ==
    /\ [][(/\ ctl_kind = "PIDController"
           /\ Len(calls') = Len(calls) + 1
           /\ calls'[Len(calls')].raised = "ZeroDivisionError")
             => (/\ calls'[Len(calls')].dt = 0
                 /\ error_integral' = error_integral
                 /\ error_previous' = error_previous)]_vars
    /\ [](ctl_kind = "PIDController" =>
             /\ error_integral = SumErrorDtReturned(Len(calls))
             /\ error_previous = LastErrorReturned(Len(calls)))

\* A tick with dt = 0 and a nonzero error failed on a controller that had
\* accumulated state, and a tick after it returned.
C17_Witness ==
    /\ ctl_kind = "PIDController"
    /\ Len(calls) >= 3
    /\ calls[1].raised = "none"
    /\ calls[2].raised = "ZeroDivisionError"
    /\ ErrorOf(2) # 0 /\ ErrorOf(2) # ErrorOf(1)
    /\ calls[3].raised = "none"
    /\ error_integral # 0

(***************************************************************************)
(* Properties of the RigidBody of physics.py (under SpecBody)              *)
(***************************************************************************)
\* C15: a force passed to apply_force affects only the next update(): after
\* update() the accumulated force and torque are zero and the module's
\* GRAVITY is unchanged, so every update() with no applied force
\* accelerates the body by exactly the original GRAVITY.
C15_ForceActsOnce ==
    /\ phys_gravity = PHYSICS_GRAVITY
    /\ \A i \in 1..Len(body_log) :
          (body_log[i].op = "update" /\ body_log[i].f = <<0, 0>>)
             => body_log[i].dv = VTimes(PHYSICS_GRAVITY, body_log[i].dt, 1)
    /\ (body_log # <<>> /\ body_log[Len(body_log)].op = "update")
          => (body.f = <<0, 0>> /\ body.t = 0)

\* Every quotient an update forms is exact.
BodyExact ==
    /\ body.f[1] % body.m = 0 /\ body.f[2] % body.m = 0
    /\ body.t % body.mi = 0

(***************************************************************************)
(* Properties of the Rocket of main.py (under SpecMain)                    *)
(***************************************************************************)
\* C18: the drawn body stays in step with the logical position: after any
\* sequence of update() calls the body's bottom edge y is _pos.y + 10, its
\* offset at construction, also when the ground check limits the move.
C18_BodyFollowsPos ==
    main_body[1][2] = main_pos[2] + 10 * MAIN_UNIT

=============================================================================
